---- MODULE Spec2Model ----
(***************************************************************************)
(* Oil tonnage calculator (server.js): the VCF resolver, the tonnage       *)
(* computation, the oil_tonnages record store and its HTTP routes.         *)
(*                                                                         *)
(* Numbers are scaled integers:                                            *)
(*   volume, density, temperature of a request body : thousandths (1e-3)   *)
(*   vcftable.density, vcftable.temperature          : thousandths (1e-3)   *)
(*   vcf                                             : millionths (1e-6)   *)
(*   oil_tonnages.volume/density/temperature/used_*  : hundredths (1e-2),  *)
(*       the DECIMAL(x,2) columns                                          *)
(*   oil_tonnages.tonnage                            : 1e-8, DECIMAL(15,8) *)
(* Products that do not fit TLC's integers are computed on little-endian   *)
(* sequences of decimal digits.                                            *)
(***************************************************************************)
EXTENDS Integers, Sequences, FiniteSets, TLC

VARIABLES
    vcftable,      \* rows of the reference table vcftable
    oil_tonnages,  \* rows of the table oil_tonnages
    nextId,        \* next value of the SERIAL id sequence
    now,           \* the store's CURRENT_TIMESTAMP, seconds after BaseTime
    max,           \* the pool's max option: clients it hands out at most
    checkedOut,    \* handles of the pool currently checked out
    pc,            \* per request slot: the await the handler is suspended at
    req,           \* per request slot: the request being (or last) handled
    loc,           \* per request slot: the handler's local variables
    vcfClient,     \* per request slot: getVCFFromDatabase holds a client
    client,        \* per request slot: the route handler holds a client
    res            \* per request slot: the response sent, or NoResponse

vars == <<vcftable, oil_tonnages, nextId, now, max, checkedOut, pc, req, loc,
          vcfClient, client, res>>

----------------------------------------------------------------------------
(* Bounds of the model *)

NumReq == 2      \* request slots handled concurrently
MaxId == 1       \* inserts in one behaviour of Spec and of SpecResolve
MaxIdStore == 2  \* inserts in one behaviour of SpecStore
MaxTime == 1     \* ticks of the store's clock in one behaviour
MaxPool == 2     \* largest pool of the pool specification

(* Program constants *)

PoolMax == 10            \* new Pool({ max: 10 })
DensityStep == 500       \* roundToNearest(density, 0.5), thousandths
TempStep == 250          \* roundToNearest(temperature, 0.25), thousandths
MinDensity == 700000     \* density < 700, thousandths
MaxDensity == 1000000    \* density > 1000, thousandths
MinTemperature == -20000 \* temperature < -20, thousandths
MaxTemperature == 60000  \* temperature > 60, thousandths
DefaultPage == 1         \* page = 1
DefaultLimit == 50       \* limit = 50

Slots == 1..NumReq

----------------------------------------------------------------------------
(* Arithmetic *)

Abs(x) == IF x < 0 THEN -x ELSE x

\* Math.round(num / den) for den > 0: the nearest integer, a tie going to
\* the larger one (towards +Infinity).
MathRound(num, den) == (2 * num + den) \div (2 * den)

\* A roundToNearest that truncates (Math.floor for Math.round).
roundToNearestFloor(value, step) == (value \div step) * step

\* roundToNearest(value, step) = Math.round(value / step) * step.  value and
\* step are thousandths; 0.5 and 0.25 are powers of two, so the division and
\* the product are exact in double precision.
roundToNearest(value, step) == MathRound(value, step) * step

\* The little-endian decimal digits of a natural number.
RECURSIVE Digits(_)
Digits(n) == IF n < 10 THEN <<n>> ELSE <<n % 10>> \o Digits(n \div 10)

\* The natural number of a little-endian digit sequence.
RECURSIVE Value(_)
Value(ds) == IF ds = <<>> THEN 0 ELSE Head(ds) + 10 * Value(Tail(ds))

RECURSIVE ConvSum(_, _, _, _)
ConvSum(a, b, k, i) ==
    IF i > Len(a) THEN 0
    ELSE (IF k - i + 1 >= 1 /\ k - i + 1 <= Len(b)
          THEN a[i] * b[k - i + 1] ELSE 0) + ConvSum(a, b, k, i + 1)

RECURSIVE MulFrom(_, _, _, _)
MulFrom(a, b, k, carry) ==
    IF k > Len(a) + Len(b) THEN <<>>
    ELSE LET t == ConvSum(a, b, k, 1) + carry
         IN  <<t % 10>> \o MulFrom(a, b, k + 1, t \div 10)

\* The product of two digit sequences (Len(a) + Len(b) digits).
MulDigits(a, b) == MulFrom(a, b, 1, 0)

\* A digit sequence without its leading (most significant) zeros.
RECURSIVE Strip(_)
Strip(ds) ==
    IF ds = <<>> THEN <<>>
    ELSE IF ds[Len(ds)] = 0 THEN Strip(SubSeq(ds, 1, Len(ds) - 1)) ELSE ds

\* A non-negative decimal given by its digits, rounded to the digits from
\* position n + 1 on, a dropped half or more rounding up: how a DECIMAL(p,s)
\* column rounds the numeric text it is given.
RoundDigits(ds, n) ==
    LET padded == ds \o [i \in 1..(n + 1) |-> 0]
    IN  Value(SubSeq(padded, n + 1, Len(padded)))
          + (IF n >= 1 /\ padded[n] >= 5 THEN 1 ELSE 0)

\* A signed number of thousandths stored in a DECIMAL(x,2) column
\* (hundredths, a half rounding away from zero).
ToDecimal2(milli) ==
    IF milli >= 0 THEN (milli + 5) \div 10 ELSE -((-milli + 5) \div 10)

----------------------------------------------------------------------------
(* The reference table *)

Entry(d, t, v) == [density |-> d, temperature |-> t, vcf |-> v]

TableA ==
    { Entry(700000, 0, 1005000), Entry(700000, -250, 1005200),
      Entry(850000, 30000, 987654), Entry(850000, 60000, 950000),
      Entry(850500, 30000, 987100), Entry(890000, 30000, 990200) }

\* A table with gaps: two densities and two temperatures at equal distance
\* from a grid point that is not in the table.
TableB ==
    { Entry(850000, 29750, 988000), Entry(850000, 30250, 987000),
      Entry(851000, 30000, 986500) }

Tables == { {}, TableA, TableB }

----------------------------------------------------------------------------
(* getVCFFromDatabase: the three queries *)

\* An exact-match query that leaves out the temperature condition.
ExactMatchRowsDensityOnly(table, d, t) == { e \in table : e.density = d }

\* SELECT vcf FROM vcftable WHERE density = $1 AND temperature = $2 LIMIT 1
ExactMatchRows(table, d, t) ==
    { e \in table : e.density = d /\ e.temperature = t }

\* SELECT density FROM vcftable ORDER BY ABS(density - $1) LIMIT 1:
\* the rows the store may return first (ties are in no defined order).
ClosestDensityRows(table, d) ==
    { e \in table :
        \A f \in table : Abs(e.density - d) <= Abs(f.density - d) }

\* A closest-temperature query that leaves out WHERE density = $1.
ClosestTempRowsAnyDensity(table, d, t) ==
    { e \in table :
        \A f \in table : Abs(e.temperature - t) <= Abs(f.temperature - t) }

\* A closest-temperature query that answers a factor of 1 when no row has
\* the density.
ClosestTempRowsDefault(table, d, t) ==
    LET same == { e \in table : e.density = d }
    IN  IF same = {} THEN {[density |-> d, temperature |-> t, vcf |-> 1000000]}
        ELSE { e \in same :
                \A f \in same :
                    Abs(e.temperature - t) <= Abs(f.temperature - t) }

\* SELECT vcf, temperature FROM vcftable WHERE density = $1
\*   ORDER BY ABS(temperature - $2) LIMIT 1
ClosestTempRows(table, d, t) ==
    LET same == { e \in table : e.density = d }
    IN  { e \in same :
            \A f \in same : Abs(e.temperature - t) <= Abs(f.temperature - t) }

----------------------------------------------------------------------------
(* Tonnage *)

\* const tonnage = (volume * density * vcfData.vcf) / 1000000.  volume and
\* density are thousandths and vcf is millionths, so the product of the three
\* integers is the tonnage in units of 1e-18: the value is kept as the
\* digits of that product.  (The double-precision product is taken as the
\* exact one.)
Tonnage(volume, density, vcf) ==
    Strip(MulDigits(MulDigits(Digits(volume), Digits(density)), Digits(vcf)))

\* A tonnage column that truncates the digits beyond the eighth.
ToDecimal8Truncate(tonnage) ==
    LET padded == tonnage \o [i \in 1..11 |-> 0]
    IN  Value(SubSeq(padded, 11, Len(padded)))

\* tonnage DECIMAL(15,8): a tonnage in units of 1e-18 as the column stores
\* it, in units of 1e-8, the ten digits beyond the eighth rounded.
ToDecimal8(tonnage) == RoundDigits(tonnage, 10)

----------------------------------------------------------------------------
(* Requests and responses *)

NoResponse == [status |-> 0]
NoLocals == [none |-> TRUE]
NoRequest == [route |-> "none"]

\* The locals l with the variables of new assigned.
Assign(l, new) == new @@ l

VcfNotFound == "VCF data not found for given parameters"
ConnectError == "timeout exceeded when trying to connect"
QueryError == "the query failed"

CalculateRequest(v, d, t) ==
    [route |-> "calculate", volume |-> v, density |-> d, temperature |-> t]

\* validateCalculationInput: the error list of a body of numbers.
ValidationErrors(body) ==
    (IF body.volume <= 0 THEN {"Volume must be a positive number"} ELSE {})
    \cup (IF body.density < MinDensity \/ body.density > MaxDensity
          THEN {"Density must be between 700-1000 kg/m3"} ELSE {})
    \cup (IF body.temperature < MinTemperature
             \/ body.temperature > MaxTemperature
          THEN {"Temperature must be between -20C and 60C"} ELSE {})

\* finally { if (client) client.release(); }
Release(held, out) == IF held THEN out - 1 ELSE out

\* The handler of slot r answers and ends; its locals go out of scope.
Respond(r, response) ==
    /\ res' = [res EXCEPT ![r] = response]
    /\ pc' = [pc EXCEPT ![r] = "idle"]
    /\ loc' = [loc EXCEPT ![r] = NoLocals]

Error500(error, message) ==
    [status |-> 500, error |-> error, message |-> message]

----------------------------------------------------------------------------
(* POST /api/calculate *)

\* The request arrives, passes or fails validateCalculationInput, and the
\* handler runs up to getVCFFromDatabase's await pool.connect().
CalcStart(r, bodies, maxId) ==
    /\ pc[r] = "idle"
    /\ nextId <= maxId
    /\ \E body \in bodies :
        /\ req' = [req EXCEPT ![r] = body]
        /\ IF ValidationErrors(body) # {}
           THEN /\ Respond(r, [status |-> 400, error |-> "Validation failed",
                               details |-> ValidationErrors(body)])
           ELSE /\ loc' = [loc EXCEPT ![r] =
                     [roundedDensity |-> roundToNearest(body.density, DensityStep),
                      roundedTemp |-> roundToNearest(body.temperature, TempStep)]]
                /\ pc' = [pc EXCEPT ![r] = "vcf_connect"]
                /\ res' = [res EXCEPT ![r] = NoResponse]
    /\ UNCHANGED <<max, vcftable, oil_tonnages, nextId, now, checkedOut,
                   vcfClient, client>>

\* client = await pool.connect() in getVCFFromDatabase; the exact-match
\* query is sent.
VcfConnected(r) ==
    /\ pc[r] = "vcf_connect"
    /\ checkedOut < max
    /\ checkedOut' = checkedOut + 1
    /\ vcfClient' = [vcfClient EXCEPT ![r] = TRUE]
    /\ pc' = [pc EXCEPT ![r] = "vcf_exact"]
    /\ UNCHANGED <<max, vcftable, oil_tonnages, nextId, now, req, loc, client, res>>

\* A getVCFFromDatabase without its finally: it returns vcfData and keeps
\* its client while the route awaits pool.connect() for the insert.
VcfReturnHolding(r, vcfData) ==
    /\ loc' = [loc EXCEPT ![r] = Assign(loc[r],
          [vcf |-> vcfData.vcf, usedDensity |-> vcfData.usedDensity,
           usedTemp |-> vcfData.usedTemp,
           tonnage |-> Tonnage(req[r].volume, req[r].density, vcfData.vcf)])]
    /\ pc' = [pc EXCEPT ![r] = "calc_connect"]
    /\ UNCHANGED <<max, vcftable, oil_tonnages, nextId, now, checkedOut, req,
                   vcfClient, client, res>>

\* getVCFFromDatabase returns vcfData: its finally releases the client, the
\* route computes the tonnage and awaits pool.connect() for the insert.
VcfReturn(r, vcfData) ==
    /\ checkedOut' = Release(vcfClient[r], checkedOut)
    /\ vcfClient' = [vcfClient EXCEPT ![r] = FALSE]
    /\ loc' = [loc EXCEPT ![r] = Assign(loc[r],
          [vcf |-> vcfData.vcf, usedDensity |-> vcfData.usedDensity,
           usedTemp |-> vcfData.usedTemp,
           tonnage |-> Tonnage(req[r].volume, req[r].density, vcfData.vcf)])]
    /\ pc' = [pc EXCEPT ![r] = "calc_connect"]
    /\ UNCHANGED <<max, vcftable, oil_tonnages, nextId, now, req, client, res>>

\* getVCFFromDatabase throws: its finally releases the client and the
\* route's catch answers 500 (the route's own client is still undefined).
VcfThrow(r, message) ==
    /\ checkedOut' = Release(client[r], Release(vcfClient[r], checkedOut))
    /\ vcfClient' = [vcfClient EXCEPT ![r] = FALSE]
    /\ Respond(r, Error500("Failed to calculate tonnage", message))
    /\ UNCHANGED <<max, vcftable, oil_tonnages, nextId, now, req, client>>

\* The exact-match query returns.
VcfExactDone(r) ==
    /\ pc[r] = "vcf_exact"
    /\ LET rows == ExactMatchRows(vcftable, loc[r].roundedDensity,
                                  loc[r].roundedTemp)
       IN  IF rows # {}
           THEN \E row \in rows :
                  VcfReturn(r, [vcf |-> row.vcf,
                                usedDensity |-> loc[r].roundedDensity,
                                usedTemp |-> loc[r].roundedTemp])
           ELSE /\ pc' = [pc EXCEPT ![r] = "vcf_density"]
                /\ UNCHANGED <<max, vcftable, oil_tonnages, nextId, now, checkedOut,
                               req, loc, vcfClient, client, res>>

\* The closest-density query returns:
\* closestDensity = rows[0]?.density || roundedDensity.
VcfDensityDone(r) ==
    /\ pc[r] = "vcf_density"
    /\ LET rows == ClosestDensityRows(vcftable, loc[r].roundedDensity)
       IN  \E closestDensity \in
                 IF rows = {} THEN {loc[r].roundedDensity}
                 ELSE {row.density : row \in rows} :
             loc' = [loc EXCEPT ![r] =
                 Assign(loc[r], [closestDensity |-> closestDensity])]
    /\ pc' = [pc EXCEPT ![r] = "vcf_temp"]
    /\ UNCHANGED <<max, vcftable, oil_tonnages, nextId, now, checkedOut, req,
                   vcfClient, client, res>>

\* The closest-temperature query returns.
VcfTempDone(r) ==
    /\ pc[r] = "vcf_temp"
    /\ LET rows == ClosestTempRows(vcftable, loc[r].closestDensity,
                                   loc[r].roundedTemp)
       IN  IF rows # {}
           THEN \E row \in rows :
                  VcfReturn(r, [vcf |-> row.vcf,
                                usedDensity |-> loc[r].closestDensity,
                                usedTemp |-> row.temperature])
           ELSE VcfThrow(r, VcfNotFound)

\* client = await pool.connect() in the route; the INSERT is sent.
CalcConnected(r) ==
    /\ pc[r] = "calc_connect"
    /\ checkedOut < max
    /\ checkedOut' = checkedOut + 1
    /\ client' = [client EXCEPT ![r] = TRUE]
    /\ pc' = [pc EXCEPT ![r] = "calc_insert"]
    /\ UNCHANGED <<max, vcftable, oil_tonnages, nextId, now, req, loc, vcfClient, res>>

\* The row INSERT INTO oil_tonnages ... VALUES ($1..$7) stores: the columns
\* round what they are given, id and created_at are defaulted.
InsertedRow(id, created, body, l) ==
    [id |-> id,
     volume |-> ToDecimal2(body.volume),
     density |-> ToDecimal2(body.density),
     temperature |-> ToDecimal2(body.temperature),
     vcf |-> l.vcf,
     used_density |-> ToDecimal2(l.usedDensity),
     used_temperature |-> ToDecimal2(l.usedTemp),
     tonnage |-> ToDecimal8(l.tonnage),
     created_at |-> created]

\* The INSERT returns: res.json(...), then the finally releases the client.
CalcInsertDone(r) ==
    /\ pc[r] = "calc_insert"
    /\ oil_tonnages' = oil_tonnages \cup {InsertedRow(nextId, now, req[r], loc[r])}
    /\ nextId' = nextId + 1
    /\ Respond(r, [status |-> 200, success |-> TRUE,
                   data |-> [id |-> nextId, vcf |-> loc[r].vcf,
                             usedDensity |-> loc[r].usedDensity,
                             usedTemp |-> loc[r].usedTemp,
                             timestamp |-> now]])
    /\ checkedOut' = Release(client[r], checkedOut)
    /\ client' = [client EXCEPT ![r] = FALSE]
    /\ UNCHANGED <<max, vcftable, now, req, vcfClient>>

----------------------------------------------------------------------------
(* Text *)

Chars(ds) == [i \in DOMAIN ds |-> <<"0", "1", "2", "3", "4", "5", "6", "7", "8", "9">>[ds[i] + 1]]

Reverse(s) == [i \in DOMAIN s |-> s[Len(s) + 1 - i]]

Pow10(n) == Value([i \in 1..n |-> 0] \o <<1>>)

\* The digits of n, most significant first, at least width of them.
Padded(n, width) ==
    LET ds == Digits(n)
    IN  Reverse(ds \o [i \in 1..(width - Len(ds)) |-> 0])

\* column::text of a DECIMAL(p,scale) value, n in units of 10^-scale:
\* 250000 at scale 2 is "2500.00", -13 is "-0.13".
DecimalText(n, scale) ==
    (IF n < 0 THEN <<"-">> ELSE <<>>)
    \o Chars(Padded(Abs(n) \div Pow10(scale), 1)) \o <<".">>
    \o Chars(Padded(Abs(n) % Pow10(scale), scale))

\* created_at of the row inserted at now = 0, and its second of the day.
BaseTime ==
    [date |-> <<"2", "0", "2", "5", "-", "0", "8", "-", "0", "5">>,
     second |-> 61700]

\* to_char(created_at, 'YYYY-MM-DD HH24:MI:SS'), created_at in seconds after
\* BaseTime (the day does not change within the model's clock).
TimestampText(created) ==
    LET s == BaseTime.second + created
    IN  BaseTime.date \o <<" ">> \o Chars(Padded((s \div 3600) % 24, 2))
        \o <<":">> \o Chars(Padded((s \div 60) % 60, 2))
        \o <<":">> \o Chars(Padded(s % 60, 2))

\* text LIKE pattern: % is any run of characters, _ any one character, a
\* backslash takes the next character literally.
RECURSIVE Like(_, _)
Like(text, pattern) ==
    IF pattern = <<>> THEN text = <<>>
    ELSE IF Head(pattern) = "%"
    THEN Like(text, Tail(pattern))
         \/ (text # <<>> /\ Like(Tail(text), pattern))
    ELSE IF Head(pattern) = "_"
    THEN text # <<>> /\ Like(Tail(text), Tail(pattern))
    ELSE IF Head(pattern) = "\\" /\ Len(pattern) >= 2
    THEN text # <<>> /\ Head(text) = pattern[2]
         /\ Like(Tail(text), Tail(Tail(pattern)))
    ELSE text # <<>> /\ Head(text) = Head(pattern)
         /\ Like(Tail(text), Tail(pattern))

\* String.prototype.toUpperCase on the letters a to z.
toUpperCase(s) ==
    LET lower == <<"a", "b", "c", "d", "e", "f", "g", "h", "i", "j", "k", "l",
                   "m", "n", "o", "p", "q", "r", "s", "t", "u", "v", "w", "x",
                   "y", "z">>
        upper == <<"A", "B", "C", "D", "E", "F", "G", "H", "I", "J", "K", "L",
                   "M", "N", "O", "P", "Q", "R", "S", "T", "U", "V", "W", "X",
                   "Y", "Z">>
    IN  [i \in DOMAIN s |->
            IF \E k \in DOMAIN lower : lower[k] = s[i]
            THEN upper[CHOOSE k \in DOMAIN lower : lower[k] = s[i]]
            ELSE s[i]]

----------------------------------------------------------------------------
(* GET /api/calculations: the queries *)

\* const { page = 1, ... } = req.query: a parameter of the query string, or
\* its default when the query string does not have it.
Param(query, name, default) ==
    IF name \in DOMAIN query THEN query[name] ELSE default

\* An offset that treats pages as numbered from 0.
OffsetFromZero(page, limit) == page * limit

\* const offset = (page - 1) * limit
Offset(page, limit) == (page - 1) * limit

\* const searchPattern = `%${search}%`
SearchPattern(search) == <<"%">> \o search \o <<"%">>

\* The WHERE clause: the five LIKE conditions, or none when search is empty.
Where(row, search) ==
    search = <<>>
    \/ LET pattern == SearchPattern(search)
       IN  \/ Like(DecimalText(row.volume, 2), pattern)
           \/ Like(DecimalText(row.density, 2), pattern)
           \/ Like(DecimalText(row.temperature, 2), pattern)
           \/ Like(DecimalText(row.tonnage, 8), pattern)
           \/ Like(TimestampText(row.created_at), pattern)

validSortColumns == {"created_at", "volume", "density", "temperature", "tonnage"}

\* const sortColumn = validSortColumns.includes(sort) ? sort : 'created_at'
SortColumn(sort) == IF sort \in validSortColumns THEN sort ELSE "created_at"

\* A sort order that compares order without toUpperCase().
SortOrderExact(order) == IF order = <<"A", "S", "C">> THEN "ASC" ELSE "DESC"

\* const sortOrder = order.toUpperCase() === 'ASC' ? 'ASC' : 'DESC'
SortOrder(order) ==
    IF toUpperCase(order) = <<"A", "S", "C">> THEN "ASC" ELSE "DESC"

\* ORDER BY column order: row a may come before row b.
MayPrecede(a, b, column, order) ==
    IF order = "ASC" THEN a[column] <= b[column] ELSE a[column] >= b[column]

\* The orders in which the store may return rows under ORDER BY column
\* order (rows with equal keys are in no defined order).
Ordered(rows, column, order) ==
    { s \in [1..Cardinality(rows) -> rows] :
        /\ \A i, j \in DOMAIN s : i # j => s[i] # s[j]
        /\ \A i \in DOMAIN s : i < Len(s) =>
             MayPrecede(s[i], s[i + 1], column, order) }

\* LIMIT limit OFFSET offset of a sequence of rows.
LimitOffset(s, limit, offset) ==
    SubSeq(s, offset + 1, IF offset + limit < Len(s) THEN offset + limit ELSE Len(s))

\* Math.ceil(total / limit)
Pages(total, limit) == (total + limit - 1) \div limit

ListRequest(query) == [route |-> "list", query |-> query]

----------------------------------------------------------------------------
(* Acquiring and using a client in a route *)

\* client = await pool.connect() resolves in the route handler of slot r,
\* which sends its next query.
Connected(r, from, to) ==
    /\ pc[r] = from
    /\ checkedOut < max
    /\ checkedOut' = checkedOut + 1
    /\ client' = [client EXCEPT ![r] = TRUE]
    /\ pc' = [pc EXCEPT ![r] = to]

\* The route handler of slot r answers; its finally releases the client.
Answer(r, response) ==
    /\ Respond(r, response)
    /\ checkedOut' = Release(client[r], checkedOut)
    /\ client' = [client EXCEPT ![r] = FALSE]

----------------------------------------------------------------------------
(* GET /api/calculations *)

\* The request arrives; the handler derives offset, WHERE clause and sort
\* and awaits pool.connect().
ListStart(r, queries) ==
    /\ pc[r] = "idle"
    /\ \E query \in queries :
        LET page == Param(query, "page", DefaultPage)
            limit == Param(query, "limit", DefaultLimit)
        IN  /\ req' = [req EXCEPT ![r] = ListRequest(query)]
            /\ loc' = [loc EXCEPT ![r] =
                  [page |-> page, limit |-> limit,
                   offset |-> Offset(page, limit),
                   search |-> Param(query, "search", <<>>),
                   sortColumn |-> SortColumn(Param(query, "sort", "created_at")),
                   sortOrder |-> SortOrder(Param(query, "order", <<"D", "E", "S", "C">>))]]
    /\ pc' = [pc EXCEPT ![r] = "list_connect"]
    /\ res' = [res EXCEPT ![r] = NoResponse]
    /\ UNCHANGED <<max, vcftable, oil_tonnages, nextId, now, checkedOut,
                   vcfClient, client>>

ListConnected(r) ==
    /\ Connected(r, "list_connect", "list_now")
    /\ UNCHANGED <<max, vcftable, oil_tonnages, nextId, now, req, loc, vcfClient, res>>

\* SELECT NOW(), the table-exists query (initializeDatabase created the
\* table, so it exists) and the table-structure query return in turn.
ListProbeDone(r) ==
    /\ pc[r] \in {"list_now", "list_exists", "list_structure"}
    /\ pc' = [pc EXCEPT ![r] =
          CASE pc[r] = "list_now" -> "list_exists"
            [] pc[r] = "list_exists" -> "list_structure"
            [] pc[r] = "list_structure" -> "list_count"]
    /\ UNCHANGED <<max, vcftable, oil_tonnages, nextId, now, checkedOut, req, loc,
                   vcfClient, client, res>>

\* SELECT COUNT(*) as total FROM oil_tonnages [WHERE ...] returns.
ListCountDone(r) ==
    /\ pc[r] = "list_count"
    /\ loc' = [loc EXCEPT ![r] = Assign(loc[r],
          [total |-> Cardinality({row \in oil_tonnages :
                                     Where(row, loc[r].search)})])]
    /\ pc' = [pc EXCEPT ![r] = "list_rows"]
    /\ UNCHANGED <<max, vcftable, oil_tonnages, nextId, now, checkedOut, req,
                   vcfClient, client, res>>

\* SELECT ... [WHERE ...] ORDER BY sortColumn sortOrder LIMIT OFFSET returns
\* and the handler answers.
ListRowsDone(r) ==
    /\ pc[r] = "list_rows"
    /\ \E s \in Ordered({row \in oil_tonnages : Where(row, loc[r].search)},
                        loc[r].sortColumn, loc[r].sortOrder) :
         Answer(r, [status |-> 200, success |-> TRUE,
                    data |-> LimitOffset(s, loc[r].limit, loc[r].offset),
                    pagination |->
                        [page |-> loc[r].page, limit |-> loc[r].limit,
                         total |-> loc[r].total,
                         pages |-> Pages(loc[r].total, loc[r].limit)]])
    /\ UNCHANGED <<max, vcftable, oil_tonnages, nextId, now, req, vcfClient>>

----------------------------------------------------------------------------
(* DELETE /api/calculations/:id *)

DeleteRequest(id) == [route |-> "delete", id |-> id]

\* A DELETE whose condition is id <= $1.
DeletedRowsUpTo(rows, id) == { row \in rows : row.id <= id }

\* The rows DELETE FROM oil_tonnages WHERE id = $1 RETURNING * deletes.
DeletedRows(rows, id) == { row \in rows : row.id = id }

DeleteStart(r, ids) ==
    /\ pc[r] = "idle"
    /\ \E id \in ids : req' = [req EXCEPT ![r] = DeleteRequest(id)]
    /\ loc' = [loc EXCEPT ![r] = NoLocals]
    /\ pc' = [pc EXCEPT ![r] = "delete_connect"]
    /\ res' = [res EXCEPT ![r] = NoResponse]
    /\ UNCHANGED <<max, vcftable, oil_tonnages, nextId, now, checkedOut,
                   vcfClient, client>>

DeleteConnected(r) ==
    /\ Connected(r, "delete_connect", "delete_query")
    /\ UNCHANGED <<max, vcftable, oil_tonnages, nextId, now, req, loc, vcfClient, res>>

\* The DELETE returns: 404 when it returned no row, success otherwise.
DeleteDone(r) ==
    /\ pc[r] = "delete_query"
    /\ LET result == DeletedRows(oil_tonnages, req[r].id)
       IN  /\ oil_tonnages' = oil_tonnages \ result
           /\ IF result = {}
              THEN Answer(r, [status |-> 404, error |-> "Calculation not found"])
              ELSE Answer(r, [status |-> 200, success |-> TRUE,
                              message |-> "Calculation deleted successfully"])
    /\ UNCHANGED <<max, vcftable, nextId, now, req, vcfClient>>

----------------------------------------------------------------------------
(* DELETE /api/calculations *)

ClearStart(r) ==
    /\ pc[r] = "idle"
    /\ req' = [req EXCEPT ![r] = [route |-> "clear"]]
    /\ loc' = [loc EXCEPT ![r] = NoLocals]
    /\ pc' = [pc EXCEPT ![r] = "clear_connect"]
    /\ res' = [res EXCEPT ![r] = NoResponse]
    /\ UNCHANGED <<max, vcftable, oil_tonnages, nextId, now, checkedOut,
                   vcfClient, client>>

ClearConnected(r) ==
    /\ Connected(r, "clear_connect", "clear_query")
    /\ UNCHANGED <<max, vcftable, oil_tonnages, nextId, now, req, loc, vcfClient, res>>

\* DELETE FROM oil_tonnages returns.
ClearDone(r) ==
    /\ pc[r] = "clear_query"
    /\ oil_tonnages' = {}
    /\ Answer(r, [status |-> 200, success |-> TRUE,
                  message |-> "All calculations cleared successfully"])
    /\ UNCHANGED <<max, vcftable, nextId, now, req, vcfClient>>

----------------------------------------------------------------------------
(* GET /api/health *)

HealthStart(r) ==
    /\ pc[r] = "idle"
    /\ req' = [req EXCEPT ![r] = [route |-> "health"]]
    /\ loc' = [loc EXCEPT ![r] = NoLocals]
    /\ pc' = [pc EXCEPT ![r] = "health_connect"]
    /\ res' = [res EXCEPT ![r] = NoResponse]
    /\ UNCHANGED <<max, vcftable, oil_tonnages, nextId, now, checkedOut,
                   vcfClient, client>>

HealthConnected(r) ==
    /\ Connected(r, "health_connect", "health_query")
    /\ UNCHANGED <<max, vcftable, oil_tonnages, nextId, now, req, loc, vcfClient, res>>

\* SELECT 1 returns.
HealthDone(r) ==
    /\ pc[r] = "health_query"
    /\ Answer(r, [status |-> 200, success |-> TRUE,
                  message |-> "Server and database are healthy"])
    /\ UNCHANGED <<max, vcftable, oil_tonnages, nextId, now, req, vcfClient>>

----------------------------------------------------------------------------
(* Failures of the store *)

\* The body of the 500 response of each route's catch.
CatchResponse(route, message) ==
    CASE route = "calculate" -> Error500("Failed to calculate tonnage", message)
      [] route = "list" -> Error500("Failed to fetch calculations", message)
      [] route = "delete" -> Error500("Failed to delete calculation", message)
      [] route = "clear" -> Error500("Failed to clear calculations", message)
      [] route = "health" ->
            [status |-> 500, success |-> FALSE,
             message |-> "Database connection failed", error |-> message]

ConnectPcs ==
    {"vcf_connect", "calc_connect", "list_connect", "delete_connect",
     "clear_connect", "health_connect"}

QueryPcs ==
    {"vcf_exact", "vcf_density", "vcf_temp", "calc_insert", "list_now",
     "list_exists", "list_structure", "list_count", "list_rows",
     "delete_query", "clear_query", "health_query"}

\* await pool.connect() rejects (the store is down, or no client came free
\* within connectionTimeoutMillis): the catch answers 500 and the finally
\* finds no client to release.
ConnectRejected(r) ==
    /\ pc[r] \in ConnectPcs
    /\ Respond(r, CatchResponse(req[r].route, ConnectError))
    /\ checkedOut' = Release(client[r], Release(vcfClient[r], checkedOut))
    /\ vcfClient' = [vcfClient EXCEPT ![r] = FALSE]
    /\ client' = [client EXCEPT ![r] = FALSE]
    /\ UNCHANGED <<max, vcftable, oil_tonnages, nextId, now, req>>

\* A handler whose release is not in a finally: a rejected query answers 500
\* and the client is never released.
QueryRejectedLeak(r) ==
    /\ pc[r] \in QueryPcs
    /\ Respond(r, CatchResponse(req[r].route, QueryError))
    /\ vcfClient' = [vcfClient EXCEPT ![r] = FALSE]
    /\ client' = [client EXCEPT ![r] = FALSE]
    /\ UNCHANGED <<max, vcftable, oil_tonnages, nextId, now, checkedOut, req>>

\* await client.query(...) rejects: the catch answers 500 and the finally
\* releases the client (getVCFFromDatabase's catch rethrows to the route
\* after its own finally).
QueryRejected(r) ==
    /\ pc[r] \in QueryPcs
    /\ Respond(r, CatchResponse(req[r].route, QueryError))
    /\ checkedOut' = Release(client[r], Release(vcfClient[r], checkedOut))
    /\ vcfClient' = [vcfClient EXCEPT ![r] = FALSE]
    /\ client' = [client EXCEPT ![r] = FALSE]
    /\ UNCHANGED <<max, vcftable, oil_tonnages, nextId, now, req>>

----------------------------------------------------------------------------
(* The store *)

\* Time passes at the store.
Tick ==
    /\ now < MaxTime
    /\ now' = now + 1
    /\ UNCHANGED <<max, vcftable, oil_tonnages, nextId, checkedOut, pc, req, loc,
                   vcfClient, client, res>>

----------------------------------------------------------------------------
(* Specifications *)

Init ==
    /\ vcftable \in Tables
    /\ oil_tonnages = {}
    /\ nextId = 1
    /\ now = 0
    /\ max = PoolMax
    /\ checkedOut = 0
    /\ pc = [r \in Slots |-> "idle"]
    /\ req = [r \in Slots |-> NoRequest]
    /\ loc = [r \in Slots |-> NoLocals]
    /\ vcfClient = [r \in Slots |-> FALSE]
    /\ client = [r \in Slots |-> FALSE]
    /\ res = [r \in Slots |-> NoResponse]

\* Request bodies of the resolver's specification: densities and
\* temperatures on the grid, off the grid, halfway between grid points, at
\* the ends of the validated ranges and outside them.
ResolveDensities ==
    {699900, 700000, 700100, 850000, 850250, 850500, 870000, 890000, 999750,
     1000000}
ResolveTemperatures ==
    {-20000, -19875, -375, -125, 125, 29900, 30000, 45000, 60000, 60100}
ResolveBodies ==
    { CalculateRequest(v, d, t) :
        v \in {0, 2500000}, d \in ResolveDensities, t \in ResolveTemperatures }

\* One request at a time against a reachable store: the resolver and the
\* calculate route over many inputs.
NextResolve ==
    \/ CalcStart(1, ResolveBodies, MaxId)
    \/ VcfConnected(1)
    \/ VcfExactDone(1)
    \/ VcfDensityDone(1)
    \/ VcfTempDone(1)
    \/ CalcConnected(1)
    \/ CalcInsertDone(1)

SpecResolve == Init /\ [][NextResolve]_vars


\* Request bodies of the record store's specification: a product of at most
\* eight fractional digits, a request of three fractional digits, and a
\* request of two whose product has more than eight.
StoreBodies ==
    { CalculateRequest(2500000, 890000, 30000),
      CalculateRequest(1005, 850250, -125),
      CalculateRequest(1020, 850000, 30000) }

Text(str) ==
    CASE str = "2500" -> <<"2", "5", "0", "0">>
      [] str = "2_00" -> <<"2", "_", "0", "0">>
      [] str = ":08:2" -> <<":", "0", "8", ":", "2">>
      [] str = "-0.1" -> <<"-", "0", ".", "1">>
      [] str = "asc" -> <<"a", "s", "c">>
      [] str = "Asc" -> <<"A", "s", "c">>
      [] str = "desc" -> <<"d", "e", "s", "c">>
      [] str = "up" -> <<"u", "p">>

\* Query strings of the record store's specification.
StoreQueries ==
    { <<>> }
    \cup { [search |-> Text(s)] : s \in {"2500", "2_00", ":08:2", "-0.1"} }
    \cup { [sort |-> c, order |-> Text(o)] :
             c \in {"volume", "tonnage", "bogus", "createdAt"},
             o \in {"asc", "Asc", "desc", "up"} }
    \cup { [sort |-> c] : c \in {"temperature", "bogus"} }
    \cup { [page |-> p, limit |-> l] : p \in 1..3, l \in 1..2 }
    \cup { [page |-> 2, limit |-> 1, sort |-> "density", order |-> Text("asc")] }

InitStore == Init /\ vcftable = TableA

\* One request at a time against a reachable store: calculate, list,
\* delete and clear over many inputs.
NextStore ==
    \/ CalcStart(1, StoreBodies, MaxIdStore)
    \/ VcfConnected(1)
    \/ VcfExactDone(1)
    \/ VcfDensityDone(1)
    \/ VcfTempDone(1)
    \/ CalcConnected(1)
    \/ CalcInsertDone(1)
    \/ ListStart(1, StoreQueries)
    \/ ListConnected(1)
    \/ ListProbeDone(1)
    \/ ListCountDone(1)
    \/ ListRowsDone(1)
    \/ DeleteStart(1, 1..nextId)
    \/ DeleteConnected(1)
    \/ DeleteDone(1)
    \/ ClearStart(1)
    \/ ClearConnected(1)
    \/ ClearDone(1)
    \/ Tick

SpecStore == InitStore /\ [][NextStore]_vars

\* Inputs of the concurrent specification.
Bodies ==
    { CalculateRequest(2500000, 890000, 30000),
      CalculateRequest(0, 850000, 30000) }

Queries == { <<>> }

\* Concurrent requests against a store that may fail.
Next ==
    \/ \E r \in Slots :
        \/ CalcStart(r, Bodies, MaxId)
        \/ VcfConnected(r)
        \/ VcfExactDone(r)
        \/ VcfDensityDone(r)
        \/ VcfTempDone(r)
        \/ CalcConnected(r)
        \/ CalcInsertDone(r)
        \/ ListStart(r, Queries)
        \/ ListConnected(r)
        \/ ListProbeDone(r)
        \/ ListCountDone(r)
        \/ ListRowsDone(r)
        \/ DeleteStart(r, 1..nextId)
        \/ DeleteConnected(r)
        \/ DeleteDone(r)
        \/ ClearStart(r)
        \/ ClearConnected(r)
        \/ ClearDone(r)
        \/ HealthStart(r)
        \/ HealthConnected(r)
        \/ HealthDone(r)
        \/ ConnectRejected(r)
        \/ QueryRejected(r)

Spec == Init /\ [][Next]_vars

\* Inputs of the pool's specification.
PoolBodies == { CalculateRequest(2500000, 890000, 30000) }

\* The pool is constructed with a max option small enough for NumReq
\* requests to exhaust it; server.js passes PoolMax.
InitPool ==
    /\ vcftable \in {{}, TableA}
    /\ oil_tonnages = {}
    /\ nextId = 1
    /\ now = 0
    /\ max \in 1..MaxPool
    /\ checkedOut = 0
    /\ pc = [r \in Slots |-> "idle"]
    /\ req = [r \in Slots |-> NoRequest]
    /\ loc = [r \in Slots |-> NoLocals]
    /\ vcfClient = [r \in Slots |-> FALSE]
    /\ client = [r \in Slots |-> FALSE]
    /\ res = [r \in Slots |-> NoResponse]

\* Concurrent requests competing for the clients of a small pool.
NextPool ==
    \/ \E r \in Slots :
        \/ CalcStart(r, PoolBodies, MaxId)
        \/ VcfConnected(r)
        \/ VcfExactDone(r)
        \/ VcfDensityDone(r)
        \/ VcfTempDone(r)
        \/ CalcConnected(r)
        \/ CalcInsertDone(r)
        \/ ClearStart(r)
        \/ ClearConnected(r)
        \/ ClearDone(r)
        \/ HealthStart(r)
        \/ HealthConnected(r)
        \/ HealthDone(r)
        \/ ConnectRejected(r)
        \/ QueryRejected(r)

SpecPool == InitPool /\ [][NextPool]_vars

----------------------------------------------------------------------------
(* Properties of the resolver *)

\* m is a multiple of step nearest to value.
IsNearestMultiple(m, value, step) ==
    m % step = 0 /\ 2 * Abs(value - m) <= step

\* value lies exactly halfway between two multiples of step, m being one.
IsHalfway(m, value, step) == 2 * Abs(value - m) = step

\* The grid point of value: the nearest multiple of step, the larger one
\* when value is halfway.
Grid(value, step) ==
    CHOOSE m \in (value - step)..(value + step) :
        /\ IsNearestMultiple(m, value, step)
        /\ IsHalfway(m, value, step) => m > value

ValidCalculate(r) ==
    req[r].route = "calculate" /\ ValidationErrors(req[r]) = {}

\* The rows of the reference table at the grid point of request r.
RowsAtGridPoint(r) ==
    { e \in vcftable :
        /\ e.density = Grid(req[r].density, DensityStep)
        /\ e.temperature = Grid(req[r].temperature, TempStep) }

\* e is a choice of the two-stage policy for the grid point (d, t).
IsTwoStageChoice(e, d, t) ==
    /\ e \in vcftable
    /\ \A f \in vcftable : Abs(e.density - d) <= Abs(f.density - d)
    /\ \A f \in vcftable :
         f.density = e.density =>
             Abs(e.temperature - t) <= Abs(f.temperature - t)

\* The squared distance of row e from (d, t), in grid units of 0.25.
GridDistance2(e, d, t) ==
    LET dd == (e.density - d) \div TempStep
        dt == (e.temperature - t) \div TempStep
    IN  dd * dd + dt * dt

\* C1: a valid calculate whose grid point has no row in a non-empty
\* reference table succeeds, and what it answers is a row chosen by the
\* two-stage policy (a density nearest to roundedDensity, then among the rows
\* of that density a temperature nearest to roundedTemperature): that row's
\* vcf, density and temperature.
C1_TwoStageNearest ==
    \A r \in Slots :
        (ValidCalculate(r) /\ pc[r] = "idle" /\ RowsAtGridPoint(r) = {}
           /\ vcftable # {}) =>
            /\ res[r].status = 200
            /\ \E e \in vcftable :
                 /\ IsTwoStageChoice(e, Grid(req[r].density, DensityStep),
                                     Grid(req[r].temperature, TempStep))
                 /\ res[r].data.vcf = e.vcf
                 /\ res[r].data.usedDensity = e.density
                 /\ res[r].data.usedTemp = e.temperature

\* A calculate answered by the nearest-neighbour path with a row that is
\* not the nearest row of the table in the plane.
C1_Witness ==
    \E r \in Slots :
        /\ ValidCalculate(r) /\ pc[r] = "idle" /\ res[r].status = 200
        /\ RowsAtGridPoint(r) = {}
        /\ LET d == Grid(req[r].density, DensityStep)
               t == Grid(req[r].temperature, TempStep)
               used == [density |-> res[r].data.usedDensity,
                        temperature |-> res[r].data.usedTemp]
           IN  \E f \in vcftable :
                   GridDistance2(f, d, t) < GridDistance2(used, d, t)

\* C2: a valid calculate whose grid point is the key of a row of the
\* reference table never waits on the closest-density or the
\* closest-temperature query, succeeds, and answers the vcf of a row at that
\* key with usedDensity and usedTemp the grid point itself.
C2_ExactMatch ==
    \A r \in Slots :
        (ValidCalculate(r) /\ RowsAtGridPoint(r) # {}) =>
            /\ pc[r] \notin {"vcf_density", "vcf_temp"}
            /\ pc[r] = "idle" =>
                 /\ res[r].status = 200
                 /\ res[r].data.vcf \in {e.vcf : e \in RowsAtGridPoint(r)}
                 /\ res[r].data.usedDensity = Grid(req[r].density, DensityStep)
                 /\ res[r].data.usedTemp = Grid(req[r].temperature, TempStep)

\* A calculate answered from a row at its grid point, the request itself
\* lying off the grid.
C2_Witness ==
    \E r \in Slots :
        /\ ValidCalculate(r) /\ pc[r] = "idle" /\ res[r].status = 200
        /\ RowsAtGridPoint(r) # {}
        /\ req[r].density # res[r].data.usedDensity

\* The request in slot r has been rounded by getVCFFromDatabase.
Rounded(r) == ValidCalculate(r) /\ "roundedDensity" \in DOMAIN loc[r]

\* C3 as stated: density is rounded to the nearest multiple of 0.5 and
\* temperature to the nearest multiple of 0.25, a value halfway between two
\* grid points going to the one farther from zero.
C3_RoundHalfAwayFromZero ==
    \A r \in Slots :
        Rounded(r) =>
            /\ IsNearestMultiple(loc[r].roundedDensity, req[r].density, DensityStep)
            /\ IsHalfway(loc[r].roundedDensity, req[r].density, DensityStep) =>
                 Abs(loc[r].roundedDensity) > Abs(req[r].density)
            /\ IsNearestMultiple(loc[r].roundedTemp, req[r].temperature, TempStep)
            /\ IsHalfway(loc[r].roundedTemp, req[r].temperature, TempStep) =>
                 Abs(loc[r].roundedTemp) > Abs(req[r].temperature)

\* C3 as amended: density is rounded to the nearest multiple of 0.5 and
\* temperature to the nearest multiple of 0.25, a value halfway between two
\* grid points going to the larger one (towards +Infinity), so a negative
\* halfway temperature goes towards zero.
C3_RoundHalfUp ==
    \A r \in Slots :
        Rounded(r) =>
            /\ IsNearestMultiple(loc[r].roundedDensity, req[r].density, DensityStep)
            /\ IsHalfway(loc[r].roundedDensity, req[r].density, DensityStep) =>
                 loc[r].roundedDensity > req[r].density
            /\ IsNearestMultiple(loc[r].roundedTemp, req[r].temperature, TempStep)
            /\ IsHalfway(loc[r].roundedTemp, req[r].temperature, TempStep) =>
                 loc[r].roundedTemp > req[r].temperature

\* A negative temperature halfway between two grid points has been rounded.
C3_Witness ==
    \E r \in Slots :
        /\ Rounded(r) /\ req[r].temperature < 0
        /\ IsHalfway(loc[r].roundedTemp, req[r].temperature, TempStep)

\* C5: with an empty reference table no row of oil_tonnages is ever
\* created, no calculate reaches the insert, and every valid calculate is
\* answered 500 with the message "VCF data not found for given parameters".
C5_EmptyReferenceStore ==
    vcftable = {} =>
        /\ oil_tonnages = {}
        /\ nextId = 1
        /\ \A r \in Slots :
             ValidCalculate(r) =>
                 /\ pc[r] \notin {"calc_connect", "calc_insert"}
                 /\ pc[r] = "idle" =>
                      /\ res[r].status = 500
                      /\ res[r].message = VcfNotFound

\* A valid calculate has been answered against an empty reference table.
C5_Witness ==
    /\ vcftable = {}
    /\ \E r \in Slots :
         ValidCalculate(r) /\ pc[r] = "idle" /\ res[r].status = 500

----------------------------------------------------------------------------
(* Properties of the record store *)

DigitAt(ds, k) == IF k <= Len(ds) THEN ds[k] ELSE 0

RECURSIVE AddFrom(_, _, _, _)
AddFrom(a, b, k, carry) ==
    IF k > Len(a) /\ k > Len(b)
    THEN (IF carry = 0 THEN <<>> ELSE <<carry>>)
    ELSE LET t == DigitAt(a, k) + DigitAt(b, k) + carry
         IN  <<t % 10>> \o AddFrom(a, b, k + 1, t \div 10)

\* The sum of two digit sequences.
AddDigits(a, b) == AddFrom(a, b, 1, 0)

\* The digits of a * b * c.
Product3(a, b, c) == MulDigits(MulDigits(Digits(a), Digits(b)), Digits(c))

\* The digits of n * 10^k.
Shift(n, k) == [i \in 1..k |-> 0] \o Digits(n)

\* tonnage == volume * density * vcf / 1_000_000 exactly over the stored
\* fields of row (hundredths, hundredths, millionths and 1e-8).
ExactOverStoredFields(row) ==
    Strip(Shift(row.tonnage, 8)) = Strip(Product3(row.volume, row.density, row.vcf))

\* t is volume * density * vcf / 1_000_000 rounded to 8 fractional digits,
\* volume and density in thousandths, vcf in millionths and t in 1e-8:
\* t = floor((volume * density * vcf + 5 * 10^9) / 10^10).
IsRoundedTonnage(t, volume, density, vcf) ==
    LET sum == AddDigits(Product3(volume, density, vcf), Shift(5, 9))
    IN  t = Value(SubSeq(sum, 11, Len(sum)))

\* C4 as stated: every row of oil_tonnages satisfies
\* tonnage == volume * density * vcf / 1_000_000 exactly over its own stored
\* fields.
C4_TonnageExact == \A row \in oil_tonnages : ExactOverStoredFields(row)

\* C4 as amended: a row is created only by the insert of a calculate, with
\* tonnage the product volume * density * vcf / 1_000_000 of the request's
\* volume and density and the resolved vcf rounded to 8 fractional digits,
\* and with volume and density the request's rounded to 2 fractional
\* digits; no step of calculate, deleteById or clearAll changes a row that
\* it keeps.
C4_TonnageRoundedOnceAtCreation ==
    [][/\ \A row \in oil_tonnages' \ oil_tonnages :
            \E r \in Slots :
                /\ pc[r] = "calc_insert" /\ pc'[r] = "idle"
                /\ row.id = nextId
                /\ IsRoundedTonnage(row.tonnage, req[r].volume,
                                    req[r].density, loc[r].vcf)
                /\ 2 * Abs(10 * row.volume - req[r].volume) <= 10
                /\ 2 * Abs(10 * row.density - req[r].density) <= 10
                /\ row.vcf = loc[r].vcf
       /\ \A row \in oil_tonnages : \A kept \in oil_tonnages' :
            kept.id = row.id => kept = row]_vars

\* Two rows are stored, one whose tonnage is the exact product of its
\* fields and one whose tonnage was rounded.
C4_Witness ==
    \E row, other \in oil_tonnages :
        ExactOverStoredFields(row) /\ ~ExactOverStoredFields(other)

\* The response in slot r answers a list request.
Listed(r) ==
    req[r].route = "list" /\ pc[r] = "idle" /\ res[r].status = 200

\* s occurs in text as a literal substring.
IsSubstring(s, text) ==
    \E i \in 0..(Len(text) - Len(s)) : SubSeq(text, i + 1, i + Len(s)) = s

\* s is a literal substring of the text of the volume, density, temperature
\* or tonnage of row, or of its timestamp as YYYY-MM-DD HH:MM:SS.
ContainsLiterally(row, s) ==
    \/ IsSubstring(s, DecimalText(row.volume, 2))
    \/ IsSubstring(s, DecimalText(row.density, 2))
    \/ IsSubstring(s, DecimalText(row.temperature, 2))
    \/ IsSubstring(s, DecimalText(row.tonnage, 8))
    \/ IsSubstring(s, TimestampText(row.created_at))

Range(s) == { s[i] : i \in DOMAIN s }

\* C7: a list with a non-empty search (and the default page and limit)
\* returns exactly the rows that contain the search string literally in one
\* of the five texts, and total counts them.
C7_SearchLiteralSubstring ==
    \A r \in Slots :
        (Listed(r) /\ "search" \in DOMAIN req[r].query
           /\ "page" \notin DOMAIN req[r].query
           /\ "limit" \notin DOMAIN req[r].query) =>
            LET found == { row \in oil_tonnages :
                             ContainsLiterally(row, req[r].query.search) }
            IN  /\ Range(res[r].data) = found
                /\ res[r].pagination.total = Cardinality(found)

\* C8: a list returns the rows at positions (page - 1) * limit + 1 to
\* page * limit of the matching rows in the requested order (fewer when the
\* matching rows end earlier), total is the number of matching rows and
\* pages is ceil(total / limit); page and limit default to 1 and 50.
C8_Pagination ==
    \A r \in Slots :
        Listed(r) =>
            LET query == req[r].query
                page == IF "page" \in DOMAIN query THEN query.page ELSE 1
                limit == IF "limit" \in DOMAIN query THEN query.limit ELSE 50
                matching == { row \in oil_tonnages :
                                Where(row, Param(query, "search", <<>>)) }
                n == Cardinality(matching)
                first == (page - 1) * limit + 1
                last == IF page * limit < n THEN page * limit ELSE n
                data == res[r].data
            IN  /\ res[r].pagination.total = n
                /\ res[r].pagination.pages * limit >= n
                /\ (res[r].pagination.pages - 1) * limit < n
                /\ res[r].pagination.pages >= 0
                /\ Len(data) = (IF last >= first THEN last - first + 1 ELSE 0)
                /\ \E s \in Ordered(matching,
                                    SortColumn(Param(query, "sort", "created_at")),
                                    SortOrder(Param(query, "order", <<>>))) :
                       \A i \in 1..Len(data) : data[i] = s[first + i - 1]

\* A list of two matching rows with limit 1 has returned the second page.
C8_Witness ==
    \E r \in Slots :
        /\ Listed(r)
        /\ res[r].pagination.page = 2
        /\ Len(res[r].data) = 1
        /\ res[r].pagination.total = 2
        /\ res[r].pagination.pages = 2

\* The sort parameter of the list request in slot r is none of the names
\* in columns.
SortOutside(r, columns) ==
    /\ req[r].route = "list"
    /\ "sort" \in DOMAIN req[r].query
    /\ req[r].query.sort \notin columns

\* The sort parameter is outside the allow-list under either spelling of the
\* timestamp column.
InvalidSort(r) ==
    SortOutside(r, {"createdAt", "created_at", "volume", "density",
                    "temperature", "tonnage"})

\* order is ASC in some letter case.
IsAsc(order) ==
    /\ Len(order) = 3
    /\ order[1] \in {"a", "A"} /\ order[2] \in {"s", "S"} /\ order[3] \in {"c", "C"}

\* C9 as stated: a list whose sort is outside the allow-list raises no
\* error and returns its rows by created_at descending, whatever order is.
C9_InvalidSortDescending ==
    \A r \in Slots :
        (InvalidSort(r) /\ pc[r] = "idle") =>
            /\ res[r].status = 200
            /\ \A i, j \in DOMAIN res[r].data :
                 i < j => res[r].data[i].created_at >= res[r].data[j].created_at

\* C9 as amended: a list whose sort is outside the allow-list raises no
\* error, queries with the column created_at (the raw sort value never
\* reaches the query), and returns its rows by created_at ascending when the
\* order parameter is ASC in any letter case and descending otherwise.
C9_InvalidSortFallsBackToCreatedAt ==
    \A r \in Slots :
        SortOutside(r, {"created_at", "volume", "density", "temperature",
                        "tonnage"}) =>
            /\ pc[r] # "idle" => loc[r].sortColumn = "created_at"
            /\ pc[r] = "idle" =>
                 /\ res[r].status = 200
                 /\ \A i, j \in DOMAIN res[r].data :
                      i < j =>
                        IF "order" \in DOMAIN req[r].query /\ IsAsc(req[r].query.order)
                        THEN res[r].data[i].created_at <= res[r].data[j].created_at
                        ELSE res[r].data[i].created_at >= res[r].data[j].created_at

\* A list with an invalid sort and order asc has returned two rows created
\* at different times.
C9_Witness ==
    \E r \in Slots :
        /\ InvalidSort(r) /\ Listed(r)
        /\ "order" \in DOMAIN req[r].query /\ IsAsc(req[r].query.order)
        /\ Len(res[r].data) = 2
        /\ res[r].data[1].created_at # res[r].data[2].created_at

\* C10: when the DELETE of deleteById(id) returns, a row with that id, if
\* there is one, is gone, every other row is as it was and the answer is a
\* success; if there is none, the rows are as they were and the answer is
\* 404.
C10_DeleteById ==
    [][\A r \in Slots :
         (pc[r] = "delete_query" /\ pc'[r] = "idle") =>
             IF \E row \in oil_tonnages : row.id = req[r].id
             THEN /\ res'[r].status = 200
                  /\ res'[r].success
                  /\ \A row \in oil_tonnages :
                       row.id # req[r].id <=> row \in oil_tonnages'
                  /\ oil_tonnages' \subseteq oil_tonnages
             ELSE /\ res'[r].status = 404
                  /\ oil_tonnages' = oil_tonnages]_vars

\* A deleteById has succeeded and left another row in place, and the next
\* deleteById of the same id finds nothing.
C10_Witness ==
    \E r \in Slots :
        /\ req[r].route = "delete" /\ pc[r] = "idle"
        /\ res[r].status = 200
        /\ oil_tonnages # {}
        /\ \A row \in oil_tonnages : row.id # req[r].id

----------------------------------------------------------------------------
(* Properties of the pool *)

Idle == \A r \in Slots : pc[r] = "idle"

\* C6: a request that has been answered holds no client, whatever the way
\* it ended; the clients checked out of the pool are those held by requests
\* in flight, so with no request in flight none is checked out.
C6_HandlesReleased ==
    /\ \A r \in Slots : pc[r] = "idle" => ~client[r] /\ ~vcfClient[r]
    /\ checkedOut = Cardinality({r \in Slots : client[r]})
                      + Cardinality({r \in Slots : vcfClient[r]})
    /\ Idle => checkedOut = 0

\* No request is in flight, one has ended on a rejected query and another
\* on the business error of its route.
C6_Witness ==
    /\ Idle
    /\ \E r \in Slots :
         req[r].route # "none" /\ res[r] = CatchResponse(req[r].route, QueryError)
    /\ \E r \in Slots :
         \/ res[r].status = 404
         \/ res[r] = CatchResponse("calculate", VcfNotFound)

\* The request of slot r holds a client of the pool.
Holds(r) == client[r] \/ vcfClient[r]

\* The request of slot r is suspended at an await pool.connect().
Waits(r) == pc[r] \in ConnectPcs

\* The request of slot r is suspended at an await client.query(...): the
\* actions that return a query are guarded by this position alone.
CanProceed(r) == pc[r] \in QueryPcs

\* C11: no request waits for a client of the pool while it holds one and
\* none holds two; calculate has released the client of the VCF lookup when
\* it asks for the client of the insert; so whenever a request waits at an
\* exhausted pool, whatever the pool's size, a client is held by a request
\* that does not wait and whose query can return.
C11_NoHoldAndWait ==
    /\ checkedOut <= max
    /\ \A r \in Slots :
        /\ ~(client[r] /\ vcfClient[r])
        /\ Waits(r) => ~Holds(r)
        /\ pc[r] \in {"calc_connect", "calc_insert"} => ~vcfClient[r]
    /\ (checkedOut = max /\ \E r \in Slots : Waits(r)) =>
          \E h \in Slots : Holds(h) /\ ~Waits(h) /\ CanProceed(h)

\* The pool is exhausted while a calculate request, its VCF lookup done,
\* waits for the client of its insert.
C11_Witness ==
    /\ checkedOut = max
    /\ \E r \in Slots :
        /\ pc[r] = "calc_connect"
        /\ "vcf" \in DOMAIN loc[r]
        /\ \E h \in Slots \ {r} : Holds(h)

====
